---- MODULE Spec2Model ----
(***************************************************************************)
(* A model of coral_reef/ml/utils.py (mask/colour codec, window tiler,     *)
(* rectangle geometry, Saver) and of the checkpointing part of             *)
(* coral_reef/ml/train.py (Trainer.__init__, Trainer.train,                *)
(* Trainer.validation).                                                    *)
(*                                                                         *)
(* Each component has its own specification (SpecGeometry, SpecCodec,      *)
(* SpecTiler, SpecSaver, SpecTrainer); the variables of the other          *)
(* components stay at their idle values.                                   *)
(***************************************************************************)
EXTENDS Integers, Sequences, FiniteSets, TLC

VARIABLES
    \* rectangle geometry: the two arguments and the last call's result
    rect1, rect2, geomOut,
    \* mask/colour codec: the arguments, the intermediate and final arrays
    colour_mapping, mask, class_id_mask, colour_mask, one_hot, mask_out, codecPc,
    \* cut_windows: arguments, locals, results and the position in the loops
    image_shape, window_size, step_size_arg, step_size, x, y, start_points, cuts, tilerPc,
    \* Saver / Trainer: the models folder, the live Trainer objects, the last call,
    \* and history variables recording what the calls so far were
    fs, trainers, lastCall, lastBestWritten, bestSeen, bestSeenCheckpoint

geomVars   == <<rect1, rect2, geomOut>>
codecVars  == <<colour_mapping, mask, class_id_mask, colour_mask, one_hot, mask_out, codecPc>>
tilerVars  == <<image_shape, window_size, step_size_arg, step_size, x, y, start_points, cuts, tilerPc>>
saverVars  == <<fs, trainers, lastCall, lastBestWritten, bestSeen, bestSeenCheckpoint>>
vars       == <<geomVars, codecVars, tilerVars, saverVars>>

\* what the operations of one component leave alone
notGeom  == <<codecVars, tilerVars, saverVars>>
notCodec == <<geomVars, tilerVars, saverVars>>
notTiler == <<geomVars, codecVars, saverVars>>
notSaver == <<geomVars, codecVars, tilerVars>>

Min(a, b) == IF a <= b THEN a ELSE b
Max(a, b) == IF a >= b THEN a ELSE b

(***************************************************************************)
(* Rectangle geometry (utils.py 138-182).  A rectangle is the Python list  *)
(* [x1, y1, x2, y2]; Python index k is index k+1 here.                     *)
(***************************************************************************)
MaxCoord == 3

Coords == 0 .. MaxCoord

\* Rectangles following the convention x1 <= x2, y1 <= y2 (degenerate ones included).
Rects == {r \in Coords \X Coords \X Coords \X Coords : r[1] <= r[3] /\ r[2] <= r[4]}

calc_rect_size(rect) == (rect[4] - rect[2]) * (rect[3] - rect[1])

\* calc_intersection with the inverted-box test left out
calc_intersection_unguarded(r1, r2) ==
    LET x1 == Max(r1[1], r2[1])
        y1 == Max(r1[2], r2[2])
        x2 == Min(r1[3], r2[3])
        y2 == Min(r1[4], r2[4])
    IN  (x2 - x1) * (y2 - y1)

calc_intersection(r1, r2) ==
    LET x1 == Max(r1[1], r2[1])
        y1 == Max(r1[2], r2[2])
        x2 == Min(r1[3], r2[3])
        y2 == Min(r1[4], r2[4])
    IN  IF (x2 < x1) \/ (y2 < y1) THEN 0 ELSE (x2 - x1) * (y2 - y1)

calc_union(r1, r2) == calc_rect_size(r1) + calc_rect_size(r2) - calc_intersection(r1, r2)

\* Python's true division: the quotient num/den as a fraction, or ZeroDivisionError.
calc_IOU(r1, r2) ==
    IF calc_union(r1, r2) = 0
    THEN [raised |-> "ZeroDivisionError", num |-> 0, den |-> 0]
    ELSE [raised |-> "", num |-> calc_intersection(r1, r2), den |-> calc_union(r1, r2)]

GeomIdle == [op |-> "", raised |-> "", num |-> 0, den |-> 1]

GeomInit ==
    /\ rect1 \in Rects
    /\ rect2 \in Rects
    /\ geomOut = GeomIdle

GeomIdleInit ==
    /\ rect1 = <<0, 0, 0, 0>>
    /\ rect2 = <<0, 0, 0, 0>>
    /\ geomOut = GeomIdle

CallCalcRectSize ==
    /\ geomOut' = [op |-> "calc_rect_size", raised |-> "", num |-> calc_rect_size(rect1), den |-> 1]
    /\ UNCHANGED <<rect1, rect2, notGeom>>

CallCalcIntersection ==
    /\ geomOut' = [op |-> "calc_intersection", raised |-> "",
                   num |-> calc_intersection(rect1, rect2), den |-> 1]
    /\ UNCHANGED <<rect1, rect2, notGeom>>

CallCalcUnion ==
    /\ geomOut' = [op |-> "calc_union", raised |-> "", num |-> calc_union(rect1, rect2), den |-> 1]
    /\ UNCHANGED <<rect1, rect2, notGeom>>

CallCalcIOU ==
    /\ geomOut' = [op |-> "calc_IOU"] @@ calc_IOU(rect1, rect2)
    /\ UNCHANGED <<rect1, rect2, notGeom>>

GeomNext ==
    \/ CallCalcRectSize
    \/ CallCalcIntersection
    \/ CallCalcUnion
    \/ CallCalcIOU

(***************************************************************************)
(* Mask / colour codec (utils.py 12-72).  A colour mapping is a dict       *)
(* {class name: colour}; class names are modelled by the numbers           *)
(* 1..MaxClasses, whose order stands for the order sorted() gives the      *)
(* names.  An array of shape (h, w) is a function on its pixel positions   *)
(* (row, column), both counted from 0.                                     *)
(***************************************************************************)
MaxClasses == 2
MaxColour  == 1
MaxPixels  == 2
UINT8_RANGE == 256

ClassNames == 1 .. MaxClasses

\* Colour values: some that fit np.uint8 and one that does not.
Colours == (0 .. MaxColour) \cup {UINT8_RANGE}

ColourMappings == UNION {[ks -> Colours] : ks \in SUBSET ClassNames}

Shapes == {s \in (1 .. MaxPixels) \X (1 .. MaxPixels) : s[1] * s[2] <= MaxPixels}

Pixels(shape) == (0 .. shape[1] - 1) \X (0 .. shape[2] - 1)

Masks == UNION {[Pixels(s) -> Colours] : s \in Shapes}

EmptyArray == [p \in {} |-> 0]

\* What an assignment into an array of dtype np.uint8 stores (wrapping builds).
uint8(v) == v % UINT8_RANGE

RECURSIVE SortedSeq(_)
SortedSeq(S) ==
    IF S = {} THEN <<>>
    ELSE LET least == CHOOSE k \in S : \A j \in S : k <= j
         IN  <<least>> \o SortedSeq(S \ {least})

\* sorted(colour_mapping.keys())
sorted_keys(mapping) == SortedSeq(DOMAIN mapping)

\* the keys in the opposite order: an iteration order that is not the sorted one
unsorted_keys(mapping) ==
    LET ks == sorted_keys(mapping)
    IN  [i \in 1 .. Len(ks) |-> ks[Len(ks) + 1 - i]]

\* One pixel of mask_to_one_hot: channel i (from 0) is 1 iff the pixel has class i's colour.
OneHotPixel(colour, keys, mapping) ==
    [i \in 0 .. Len(keys) - 1 |-> IF colour = mapping[keys[i + 1]] THEN 1 ELSE 0]

mask_to_one_hot_unsorted(m, mapping) ==
    [p \in DOMAIN m |-> OneHotPixel(m[p], unsorted_keys(mapping), mapping)]

mask_to_one_hot(m, mapping) ==
    [p \in DOMAIN m |-> OneHotPixel(m[p], sorted_keys(mapping), mapping)]

\* One pixel of colour_mask_to_class_id_mask: the loop over the classes from class
\* n (from 1) on, acc being the pixel's value so far (0 at the start).
RECURSIVE ClassIdPixel(_, _, _, _, _)
ClassIdPixel(colour, keys, mapping, n, acc) ==
    IF n > Len(keys) THEN acc
    ELSE ClassIdPixel(colour, keys, mapping, n + 1,
                      IF colour = mapping[keys[n]] THEN uint8(n - 1) ELSE acc)

colour_mask_to_class_id_mask(m, mapping) ==
    [p \in DOMAIN m |-> ClassIdPixel(m[p], sorted_keys(mapping), mapping, 1, 0)]

\* One pixel of class_id_mask_to_colour_mask, likewise.
RECURSIVE ColourPixel(_, _, _, _, _)
ColourPixel(id, keys, mapping, n, acc) ==
    IF n > Len(keys) THEN acc
    ELSE ColourPixel(id, keys, mapping, n + 1,
                     IF id = n - 1 THEN uint8(mapping[keys[n]]) ELSE acc)

class_id_mask_to_colour_mask_unsorted(cim, mapping) ==
    [p \in DOMAIN cim |-> ColourPixel(cim[p], unsorted_keys(mapping), mapping, 1, 0)]

class_id_mask_to_colour_mask(cim, mapping) ==
    [p \in DOMAIN cim |-> ColourPixel(cim[p], sorted_keys(mapping), mapping, 1, 0)]

\* One pixel of one_hot_to_mask: the last class whose channel is 1 wins.
RECURSIVE MaskPixel(_, _, _, _, _)
MaskPixel(channels, keys, mapping, n, acc) ==
    IF n > Len(keys) THEN acc
    ELSE MaskPixel(channels, keys, mapping, n + 1,
                   IF channels[n - 1] = 1 THEN uint8(mapping[keys[n]]) ELSE acc)

one_hot_to_mask(oh, mapping) ==
    [p \in DOMAIN oh |-> MaskPixel(oh[p], sorted_keys(mapping), mapping, 1, 0)]

\* Every colour of the mapping is an integer np.uint8 can hold.
FitsUint8(mapping) == \A k \in DOMAIN mapping : mapping[k] \in 0 .. UINT8_RANGE - 1

CodecInit ==
    /\ colour_mapping \in ColourMappings
    /\ mask \in Masks
    /\ class_id_mask = EmptyArray
    /\ colour_mask = EmptyArray
    /\ one_hot = EmptyArray
    /\ mask_out = EmptyArray
    /\ codecPc = "input"

CodecIdleInit ==
    /\ colour_mapping = EmptyArray
    /\ mask = EmptyArray
    /\ class_id_mask = EmptyArray
    /\ colour_mask = EmptyArray
    /\ one_hot = EmptyArray
    /\ mask_out = EmptyArray
    /\ codecPc = "idle"

CallColourMaskToClassIdMask ==
    /\ codecPc = "input"
    /\ class_id_mask' = colour_mask_to_class_id_mask(mask, colour_mapping)
    /\ codecPc' = "class_id"
    /\ UNCHANGED <<colour_mapping, mask, colour_mask, one_hot, mask_out, notCodec>>

CallClassIdMaskToColourMask ==
    /\ codecPc = "class_id"
    /\ colour_mask' = class_id_mask_to_colour_mask(class_id_mask, colour_mapping)
    /\ codecPc' = "colour"
    /\ UNCHANGED <<colour_mapping, mask, class_id_mask, one_hot, mask_out, notCodec>>

\* Builds whose numpy refuses a Python integer outside the dtype's range
\* raise at the assignment of line 54 instead of wrapping.
ClassIdMaskToColourMaskRaises ==
    /\ codecPc = "class_id"
    /\ ~FitsUint8(colour_mapping)
    /\ codecPc' = "OverflowError"
    /\ UNCHANGED <<colour_mapping, mask, class_id_mask, colour_mask, one_hot, mask_out, notCodec>>

CallMaskToOneHot ==
    /\ codecPc = "input"
    /\ one_hot' = mask_to_one_hot(mask, colour_mapping)
    /\ codecPc' = "one_hot"
    /\ UNCHANGED <<colour_mapping, mask, class_id_mask, colour_mask, mask_out, notCodec>>

CallOneHotToMask ==
    /\ codecPc = "one_hot"
    /\ mask_out' = one_hot_to_mask(one_hot, colour_mapping)
    /\ codecPc' = "mask"
    /\ UNCHANGED <<colour_mapping, mask, class_id_mask, colour_mask, one_hot, notCodec>>

\* The same refusal at the assignment of line 70.
OneHotToMaskRaises ==
    /\ codecPc = "one_hot"
    /\ ~FitsUint8(colour_mapping)
    /\ codecPc' = "OverflowError"
    /\ UNCHANGED <<colour_mapping, mask, class_id_mask, colour_mask, one_hot, mask_out, notCodec>>

CodecNext ==
    \/ CallColourMaskToClassIdMask
    \/ CallClassIdMaskToColourMask
    \/ ClassIdMaskToColourMaskRaises
    \/ CallMaskToOneHot
    \/ CallOneHotToMask
    \/ OneHotToMaskRaises

(***************************************************************************)
(* cut_windows (utils.py 99-135).  The image is modelled by its shape      *)
(* (h, w); a cut image[start_y:end_y, start_x:end_x] by the rows and the   *)
(* columns the two slices select.  The two for loops are taken one         *)
(* iteration at a time: x and y hold the next value of their range().      *)
(***************************************************************************)
MaxDim    == 10
MaxWindow == 5
MaxStep   == 3

StepNone == [given |-> FALSE, value |-> 0]

StepArgs == {StepNone} \cup {[given |-> TRUE, value |-> v] : v \in 1 .. MaxStep}

\* line 108: int(window_size / 2) if step_size is None else step_size
resolve_step_size(ws, arg) == IF arg.given THEN arg.value ELSE ws \div 2

\* the stop of range(0, n - step_size, step_size), lines 114 and 122
range_stop(n, step) == n - step

\* end = x + window_size without the clamp to the image
window_end_unclamped(p, ws, n) == p + ws

\* lines 115 and 123: np.min([x + window_size, w])
window_end(p, ws, n) == Min(p + ws, n)

\* lines 116 and 124
window_start(end, ws) == end - ws

\* The indices a slice a:b selects on an axis of length n (a negative bound
\* counts from the end, and both bounds are clipped to the axis).
SliceBound(a, n) == IF a < 0 THEN Max(a + n, 0) ELSE Min(a, n)

SliceIndices(a, b, n) == {i \in 0 .. n - 1 : SliceBound(a, n) <= i /\ i < SliceBound(b, n)}

ImgH == image_shape[1]
ImgW == image_shape[2]

StartX == window_start(window_end(x, window_size, ImgW), window_size)
StartY == window_start(window_end(y, window_size, ImgH), window_size)

\* lines 119 and 127: len(start_points) > 0 and start == start_points[-1][axis]
DoneBefore(start, axis) ==
    /\ Len(start_points) > 0
    /\ start = start_points[Len(start_points)][axis]

TilerInit ==
    /\ image_shape \in (1 .. MaxDim) \X (1 .. MaxDim)
    /\ window_size \in 1 .. MaxWindow
    /\ step_size_arg \in StepArgs
    /\ step_size = 0
    /\ x = 0
    /\ y = 0
    /\ start_points = <<>>
    /\ cuts = <<>>
    /\ tilerPc = "call"

TilerIdleInit ==
    /\ image_shape = <<1, 1>>
    /\ window_size = 1
    /\ step_size_arg = StepNone
    /\ step_size = 0
    /\ x = 0
    /\ y = 0
    /\ start_points = <<>>
    /\ cuts = <<>>
    /\ tilerPc = "idle"

\* lines 108-114, a step size other than 0
CutWindowsEnter ==
    /\ tilerPc = "call"
    /\ resolve_step_size(window_size, step_size_arg) # 0
    /\ step_size' = resolve_step_size(window_size, step_size_arg)
    /\ x' = 0
    /\ tilerPc' = "for_x"
    /\ UNCHANGED <<image_shape, window_size, step_size_arg, y, start_points, cuts, notTiler>>

\* line 114 with step size 0: range() arg 3 must not be zero
CutWindowsZeroStep ==
    /\ tilerPc = "call"
    /\ resolve_step_size(window_size, step_size_arg) = 0
    /\ step_size' = 0
    /\ tilerPc' = "ValueError"
    /\ UNCHANGED <<image_shape, window_size, step_size_arg, x, y, start_points, cuts, notTiler>>

\* line 114: the range of x is exhausted; line 135
ForXExhausted ==
    /\ tilerPc = "for_x"
    /\ ~(x < range_stop(ImgW, step_size))
    /\ tilerPc' = "return"
    /\ UNCHANGED <<image_shape, window_size, step_size_arg, step_size, x, y, start_points, cuts, notTiler>>

\* lines 115-120: the break of the outer loop; line 135
ForXBreak ==
    /\ tilerPc = "for_x"
    /\ x < range_stop(ImgW, step_size)
    /\ DoneBefore(StartX, 1)
    /\ tilerPc' = "return"
    /\ UNCHANGED <<image_shape, window_size, step_size_arg, step_size, x, y, start_points, cuts, notTiler>>

\* lines 115-122: the inner loop is entered
ForXBody ==
    /\ tilerPc = "for_x"
    /\ x < range_stop(ImgW, step_size)
    /\ ~DoneBefore(StartX, 1)
    /\ y' = 0
    /\ tilerPc' = "for_y"
    /\ UNCHANGED <<image_shape, window_size, step_size_arg, step_size, x, start_points, cuts, notTiler>>

\* line 122: the range of y is exhausted; the outer loop goes on
ForYExhausted ==
    /\ tilerPc = "for_y"
    /\ ~(y < range_stop(ImgH, step_size))
    /\ x' = x + step_size
    /\ tilerPc' = "for_x"
    /\ UNCHANGED <<image_shape, window_size, step_size_arg, step_size, y, start_points, cuts, notTiler>>

\* lines 123-128: the break of the inner loop; the outer loop goes on
ForYBreak ==
    /\ tilerPc = "for_y"
    /\ y < range_stop(ImgH, step_size)
    /\ DoneBefore(StartY, 2)
    /\ x' = x + step_size
    /\ tilerPc' = "for_x"
    /\ UNCHANGED <<image_shape, window_size, step_size_arg, step_size, y, start_points, cuts, notTiler>>

\* lines 123-131: a window is cut
ForYBody ==
    /\ tilerPc = "for_y"
    /\ y < range_stop(ImgH, step_size)
    /\ ~DoneBefore(StartY, 2)
    /\ cuts' = Append(cuts,
                 [rows |-> SliceIndices(StartY, window_end(y, window_size, ImgH), ImgH),
                  cols |-> SliceIndices(StartX, window_end(x, window_size, ImgW), ImgW)])
    /\ start_points' = Append(start_points, <<StartX, StartY>>)
    /\ y' = y + step_size
    /\ UNCHANGED <<image_shape, window_size, step_size_arg, step_size, x, tilerPc, notTiler>>

TilerNext ==
    \/ CutWindowsEnter
    \/ CutWindowsZeroStep
    \/ ForXExhausted
    \/ ForXBreak
    \/ ForXBody
    \/ ForYExhausted
    \/ ForYBreak
    \/ ForYBody

(***************************************************************************)
(* Saver (utils.py 185-199) and the Trainer's use of it (train.py 42-50,   *)
(* 138, 140-177, 179-222).  fs is the models folder: per model name the    *)
(* experiment folder, its instructions.json, its checkpoint_epoch_<n>.pt   *)
(* files and its model_best.pth.  A file's content is the value that was   *)
(* serialised into it; "" (NoInstructions for instructions.json) is a file *)
(* that does not exist.  mIoU is counted in steps of 1/MaxMIoU.            *)
(*                                                                         *)
(* train.py imports Saver twice (lines 19 and 27); the Saver modelled is   *)
(* the one of utils.py, whose constructor takes the folder_path and        *)
(* instructions arguments that line 48 passes.                             *)
(*                                                                         *)
(* History variables, read by the properties only: lastCall is the last    *)
(* call and its outcome, lastBestWritten[name] what the most recent        *)
(* save_checkpoint call with is_best=True wrote, bestSeen[name] the        *)
(* highest mIoU validated so far (0.0 before any), and                     *)
(* bestSeenCheckpoint[name] the checkpoint of the epoch that reached it    *)
(* first.                                                                  *)
(***************************************************************************)
MaxEpoch == 1
MaxMIoU  == 2

ModelNames == {"run_a", "run_b"}
\* the model names Trainers are constructed for
TrainedNames == {"run_a"}
Configs    == {"cfg_1", "cfg_2"}
Weights    == {"w1", "w2"}
Epochs     == 0 .. MaxEpoch
MIoUs      == 0 .. MaxMIoU

NoInstructions == [model_name |-> "", config |-> ""]

NoFolder ==
    [exists |-> FALSE, instructions |-> NoInstructions,
     checkpoints |-> [e \in Epochs |-> ""], best |-> ""]

EmptyFolder == [NoFolder EXCEPT !.exists = TRUE]

NoTrainer == [alive |-> FALSE, model |-> "", best_prediction |-> 0]

NoCall == [op |-> "", name |-> "", raised |-> "", is_best |-> FALSE]

\* os.makedirs treating an existing folder as success
makedirs_exist_ok(f, name, exist_ok) ==
    [raised |-> "", fs |-> [f EXCEPT ![name].exists = TRUE]]

\* train.py 45: os.makedirs(experiment_folder_path, exist_ok=...)
makedirs(f, name, exist_ok) ==
    IF f[name].exists /\ ~exist_ok
    THEN [raised |-> "FileExistsError", fs |-> f]
    ELSE [raised |-> "", fs |-> [f EXCEPT ![name].exists = TRUE]]

\* utils.py 197-199 on an existing folder
save_instructions(folder, instructions) == [folder EXCEPT !.instructions = instructions]

\* save_checkpoint copying to model_best.pth whatever is_best says
save_checkpoint_always_best(folder, model, is_best, epoch) ==
    LET written == [folder EXCEPT !.checkpoints[epoch] = model]
    IN  [written EXCEPT !.best = written.checkpoints[epoch]]

\* utils.py 191-195 on an existing folder: the state dict is written to the
\* epoch's file, and that file is copied to model_best.pth if is_best
save_checkpoint(folder, model, is_best, epoch) ==
    LET written == [folder EXCEPT !.checkpoints[epoch] = model]
    IN  IF is_best THEN [written EXCEPT !.best = written.checkpoints[epoch]] ELSE written

\* train.py 221
is_best_prediction(new_pred, best_prediction) == new_pred > best_prediction

SaverIdleInit ==
    /\ fs = [n \in ModelNames |-> NoFolder]
    /\ trainers = [n \in ModelNames |-> NoTrainer]
    /\ lastCall = NoCall
    /\ lastBestWritten = [n \in ModelNames |-> ""]
    /\ bestSeen = [n \in ModelNames |-> 0]
    /\ bestSeenCheckpoint = [n \in ModelNames |-> ""]

\* Saver used on its own: each experiment folder exists (empty) or does not.
SaverInit ==
    /\ fs \in [ModelNames -> {NoFolder, EmptyFolder}]
    /\ trainers = [n \in ModelNames |-> NoTrainer]
    /\ lastCall = NoCall
    /\ lastBestWritten = [n \in ModelNames |-> ""]
    /\ bestSeen = [n \in ModelNames |-> 0]
    /\ bestSeenCheckpoint = [n \in ModelNames |-> ""]

\* Saver(folder_path, instructions).save_checkpoint(model, is_best, epoch)
SaverSaveCheckpoint(name, model, is_best, epoch) ==
    /\ fs[name].exists
    /\ fs' = [fs EXCEPT ![name] = save_checkpoint(fs[name], model, is_best, epoch)]
    /\ lastBestWritten' = IF is_best THEN [lastBestWritten EXCEPT ![name] = model]
                          ELSE lastBestWritten
    /\ lastCall' = [op |-> "Saver.save_checkpoint", name |-> name, raised |-> "",
                    is_best |-> is_best]
    /\ UNCHANGED <<trainers, bestSeen, bestSeenCheckpoint, notSaver>>

\* torch.save into a folder that does not exist
SaverSaveCheckpointNoFolder(name, is_best) ==
    /\ ~fs[name].exists
    /\ lastCall' = [op |-> "Saver.save_checkpoint", name |-> name,
                    raised |-> "FileNotFoundError", is_best |-> is_best]
    /\ UNCHANGED <<fs, trainers, lastBestWritten, bestSeen, bestSeenCheckpoint, notSaver>>

\* Saver(folder_path, instructions).save_instructions()
SaverSaveInstructions(name, config) ==
    /\ fs[name].exists
    /\ fs' = [fs EXCEPT ![name] =
                 save_instructions(fs[name], [model_name |-> name, config |-> config])]
    /\ lastCall' = [op |-> "Saver.save_instructions", name |-> name, raised |-> "",
                    is_best |-> FALSE]
    /\ UNCHANGED <<trainers, lastBestWritten, bestSeen, bestSeenCheckpoint, notSaver>>

\* open(..., "w") in a folder that does not exist
SaverSaveInstructionsNoFolder(name) ==
    /\ ~fs[name].exists
    /\ lastCall' = [op |-> "Saver.save_instructions", name |-> name,
                    raised |-> "FileNotFoundError", is_best |-> FALSE]
    /\ UNCHANGED <<fs, trainers, lastBestWritten, bestSeen, bestSeenCheckpoint, notSaver>>

SaverNext ==
    \/ \E name \in ModelNames, model \in Weights, is_best \in BOOLEAN, epoch \in Epochs :
          SaverSaveCheckpoint(name, model, is_best, epoch)
    \/ \E name \in ModelNames, is_best \in BOOLEAN : SaverSaveCheckpointNoFolder(name, is_best)
    \/ \E name \in ModelNames, config \in Configs : SaverSaveInstructions(name, config)
    \/ \E name \in ModelNames : SaverSaveInstructionsNoFolder(name)

\* train.py 45
TRAINER_EXIST_OK == FALSE

\* Trainer(...) with instructions[MODEL_NAME] = name: os.makedirs raises (line 45)
TrainerInitRaises(name, config) ==
    /\ makedirs(fs, name, TRAINER_EXIST_OK).raised # ""
    /\ lastCall' = [op |-> "Trainer.__init__", name |-> name,
                    raised |-> makedirs(fs, name, TRAINER_EXIST_OK).raised, is_best |-> FALSE]
    /\ UNCHANGED <<fs, trainers, lastBestWritten, bestSeen, bestSeenCheckpoint, notSaver>>

\* Trainer(...) running to its end (lines 43-138): the folder is made, the
\* instructions are saved, the model is built (its weights fresh or loaded
\* from a state dict) and best_prediction starts at 0.0
TrainerInit(name, config, model) ==
    /\ makedirs(fs, name, TRAINER_EXIST_OK).raised = ""
    /\ fs' = [makedirs(fs, name, TRAINER_EXIST_OK).fs EXCEPT ![name] =
                 save_instructions(@, [model_name |-> name, config |-> config])]
    /\ trainers' = [trainers EXCEPT ![name] =
                       [alive |-> TRUE, model |-> model, best_prediction |-> 0]]
    /\ lastCall' = [op |-> "Trainer.__init__", name |-> name, raised |-> "", is_best |-> FALSE]
    /\ UNCHANGED <<lastBestWritten, bestSeen, bestSeenCheckpoint, notSaver>>

\* Trainer(...) raising after line 50 (the colour mapping file of line 60 or the
\* state dict of line 103 cannot be read): the folder and instructions.json stay
TrainerInitRaisesLater(name, config) ==
    /\ makedirs(fs, name, TRAINER_EXIST_OK).raised = ""
    /\ fs' = [makedirs(fs, name, TRAINER_EXIST_OK).fs EXCEPT ![name] =
                 save_instructions(@, [model_name |-> name, config |-> config])]
    /\ lastCall' = [op |-> "Trainer.__init__", name |-> name, raised |-> "FileNotFoundError",
                    is_best |-> FALSE]
    /\ UNCHANGED <<trainers, lastBestWritten, bestSeen, bestSeenCheckpoint, notSaver>>

\* Trainer.train (lines 140-177): the optimizer steps change the weights
TrainerTrain(name, model) ==
    /\ trainers[name].alive
    /\ trainers' = [trainers EXCEPT ![name].model = model]
    /\ lastCall' = [op |-> "Trainer.train", name |-> name, raised |-> "", is_best |-> FALSE]
    /\ UNCHANGED <<fs, lastBestWritten, bestSeen, bestSeenCheckpoint, notSaver>>

\* Trainer.validation (lines 179-222): the evaluator yields mIoU, and the
\* checkpoint is saved as the best one if it exceeds self.best_prediction
TrainerValidation(name, epoch, mIoU) ==
    /\ trainers[name].alive
    /\ LET is_best == is_best_prediction(mIoU, trainers[name].best_prediction)
       IN  /\ fs' = [fs EXCEPT ![name] =
                        save_checkpoint(fs[name], trainers[name].model, is_best, epoch)]
           /\ lastBestWritten' = IF is_best
                                 THEN [lastBestWritten EXCEPT ![name] = trainers[name].model]
                                 ELSE lastBestWritten
           /\ lastCall' = [op |-> "Trainer.validation", name |-> name, raised |-> "",
                           is_best |-> is_best]
    /\ bestSeen' = [bestSeen EXCEPT ![name] = Max(@, mIoU)]
    /\ bestSeenCheckpoint' = IF mIoU > bestSeen[name]
                             THEN [bestSeenCheckpoint EXCEPT ![name] = trainers[name].model]
                             ELSE bestSeenCheckpoint
    /\ UNCHANGED <<trainers, notSaver>>

TrainerNext ==
    \/ \E name \in TrainedNames, config \in Configs : TrainerInitRaises(name, config)
    \/ \E name \in TrainedNames, config \in Configs, model \in Weights :
          TrainerInit(name, config, model)
    \/ \E name \in TrainedNames, config \in Configs : TrainerInitRaisesLater(name, config)
    \/ \E name \in TrainedNames, model \in Weights : TrainerTrain(name, model)
    \/ \E name \in TrainedNames, epoch \in Epochs, mIoU \in MIoUs :
          TrainerValidation(name, epoch, mIoU)

(***************************************************************************)
(* The specifications, one per component.                                  *)
(***************************************************************************)
InitGeometry == GeomInit /\ CodecIdleInit /\ TilerIdleInit /\ SaverIdleInit

InitCodec == GeomIdleInit /\ CodecInit /\ TilerIdleInit /\ SaverIdleInit

InitTiler == GeomIdleInit /\ CodecIdleInit /\ TilerInit /\ SaverIdleInit

InitSaver == GeomIdleInit /\ CodecIdleInit /\ TilerIdleInit /\ SaverInit

InitTrainer == GeomIdleInit /\ CodecIdleInit /\ TilerIdleInit /\ SaverIdleInit

SpecGeometry == InitGeometry /\ [][GeomNext]_vars

SpecCodec == InitCodec /\ [][CodecNext]_vars

SpecTiler == InitTiler /\ [][TilerNext]_vars

SpecSaver == InitSaver /\ [][SaverNext]_vars

SpecTrainer == InitTrainer /\ [][TrainerNext]_vars

(***************************************************************************)
(* Properties of the rectangle geometry.                                   *)
(***************************************************************************)
PositiveArea(r) == r[1] < r[3] /\ r[2] < r[4]

\* the unit cells a rectangle with integer corners covers
Cells(r) == (r[1] .. r[3] - 1) \X (r[2] .. r[4] - 1)

Overlapping(r1, r2) == Cells(r1) \cap Cells(r2) # {}

\* C9: for two well-formed rectangles of positive area that do not overlap,
\* calc_intersection returns 0 (never a negative area) and calc_IOU returns 0.
C9_DisjointRectanglesGiveZero ==
    (PositiveArea(rect1) /\ PositiveArea(rect2) /\ ~Overlapping(rect1, rect2)) =>
        /\ geomOut.op = "calc_intersection" => geomOut.num = 0
        /\ geomOut.op = "calc_IOU" =>
              geomOut.raised = "" /\ geomOut.num = 0 /\ geomOut.den > 0

\* calc_IOU has been applied to rectangles apart from each other on both axes
C9_Witness ==
    /\ geomOut.op = "calc_IOU"
    /\ PositiveArea(rect1) /\ PositiveArea(rect2)
    /\ rect1[3] < rect2[1] /\ rect1[4] < rect2[2]
    /\ geomOut.num = 0 /\ geomOut.den = calc_rect_size(rect1) + calc_rect_size(rect2)

(***************************************************************************)
(* Properties of the codec.                                                *)
(***************************************************************************)
\* the pixel's colour is a value of the mapping
ValidColour(colour) == \E k \in DOMAIN colour_mapping : colour_mapping[k] = colour

ClassIdRoundTrip ==
    codecPc = "colour" =>
        \A p \in DOMAIN mask : ValidColour(mask[p]) => colour_mask[p] = mask[p]

OneHotRoundTrip ==
    codecPc = "mask" =>
        \A p \in DOMAIN mask :
            /\ ValidColour(mask[p]) => mask_out[p] = mask[p]
            /\ ~ValidColour(mask[p]) =>
                  /\ mask_out[p] = 0
                  /\ \A i \in DOMAIN one_hot[p] : one_hot[p][i] = 0

\* C6 as stated: for every colour mapping and every colour mask, the round trip
\* through the class-id mask returns the original colour at every pixel whose
\* colour is a value of the mapping.
C6_RoundTripEveryMapping == ClassIdRoundTrip /\ codecPc # "OverflowError"

\* C6 amended: the same for every colour mapping whose colours are integers
\* that fit np.uint8 (0..255).
C6_RoundTripUint8Mapping ==
    FitsUint8(colour_mapping) => (ClassIdRoundTrip /\ codecPc # "OverflowError")

\* the round trip has run with two classes of different colours, on a mask with
\* a pixel of the second class
C6_Witness ==
    /\ codecPc = "colour"
    /\ FitsUint8(colour_mapping)
    /\ Cardinality(DOMAIN colour_mapping) = 2
    /\ \E p \in DOMAIN mask :
          /\ ValidColour(mask[p])
          /\ class_id_mask[p] = 1
          /\ mask[p] # 0
          /\ colour_mask[p] = mask[p]

\* C7 as stated: for every colour mapping and every mask, the round trip
\* through the one-hot array returns the original colour at every pixel whose
\* colour is a value of the mapping, and 0 (all channels 0) at every other pixel.
C7_RoundTripEveryMapping == OneHotRoundTrip /\ codecPc # "OverflowError"

\* C7 amended: the same for every colour mapping whose colours are integers
\* that fit np.uint8 (0..255).
C7_RoundTripUint8Mapping ==
    FitsUint8(colour_mapping) => (OneHotRoundTrip /\ codecPc # "OverflowError")

\* the round trip has run on a mask with a pixel of the second class and a pixel
\* of no class
C7_Witness ==
    /\ codecPc = "mask"
    /\ FitsUint8(colour_mapping)
    /\ Cardinality(DOMAIN colour_mapping) = 2
    /\ \E p, q \in DOMAIN mask :
          /\ ValidColour(mask[p]) /\ mask[p] # 0
          /\ one_hot[p][1] = 1 /\ one_hot[p][0] = 0
          /\ mask_out[p] = mask[p]
          /\ ~ValidColour(mask[q]) /\ mask[q] # 0
          /\ mask_out[q] = 0

(***************************************************************************)
(* Properties of cut_windows.                                              *)
(***************************************************************************)
WindowFits == window_size <= ImgH /\ window_size <= ImgW

\* tile i is window_size x window_size pixels, at its origin, inside the image
WholeTile(i) ==
    LET sx == start_points[i][1]
        sy == start_points[i][2]
    IN  /\ 0 <= sx /\ sx + window_size <= ImgW
        /\ 0 <= sy /\ sy + window_size <= ImgH
        /\ cuts[i].cols = sx .. sx + window_size - 1
        /\ cuts[i].rows = sy .. sy + window_size - 1
        /\ Cardinality(cuts[i].cols) = window_size
        /\ Cardinality(cuts[i].rows) = window_size

\* C4: with windowSize <= H, windowSize <= W and stepSize >= 1, every tile
\* cut_windows returns is exactly windowSize x windowSize pixels and lies
\* inside the image.
C4_TilesWholeAndInside ==
    WindowFits =>
        /\ Len(cuts) = Len(start_points)
        /\ \A i \in 1 .. Len(cuts) : WholeTile(i)

\* cut_windows has returned tiles, one of them moved back from the grid of
\* steps on both axes by the clamp to the image
C4_Witness ==
    /\ tilerPc = "return"
    /\ WindowFits
    /\ Len(cuts) >= 2
    /\ \E i \in 1 .. Len(cuts) :
          /\ start_points[i][1] % step_size # 0
          /\ start_points[i][2] % step_size # 0
          /\ WholeTile(i)

\* C5: the tiles cut_windows returns cover the image: with windowSize <= H,
\* windowSize <= W and 1 <= stepSize <= windowSize, every pixel lies inside at
\* least one returned tile.
C5_TilesCoverImage ==
    (tilerPc = "return" /\ WindowFits /\ 1 <= step_size /\ step_size <= window_size) =>
        \A r \in 0 .. ImgH - 1, c \in 0 .. ImgW - 1 :
            \E i \in 1 .. Len(cuts) : r \in cuts[i].rows /\ c \in cuts[i].cols

\* C8: with a windowSize larger than the image's height or width cut_windows
\* raises an error: it does not return a sequence of tiles.
C8_OversizedWindowRaises ==
    tilerPc = "return" => WindowFits

\* C10: with windowSize <= H, W no two returned tiles have the same origin, and
\* the rule stops an axis only at a position that repeats an emitted tile.
C10_StopsOnlyOnDuplicates ==
    WindowFits =>
        /\ \A i, j \in 1 .. Len(start_points) :
              start_points[i] = start_points[j] => i = j
        /\ (tilerPc = "for_y" /\ y < range_stop(ImgH, step_size) /\ DoneBefore(StartY, 2)) =>
              \E i \in 1 .. Len(start_points) : start_points[i] = <<StartX, StartY>>
        /\ (tilerPc = "for_x" /\ x < range_stop(ImgW, step_size) /\ DoneBefore(StartX, 1)) =>
              \E i \in 1 .. Len(start_points) : start_points[i][1] = StartX

(***************************************************************************)
(* Properties of the Saver and the Trainer.                                *)
(***************************************************************************)
\* C1: after any sequence of Trainer.validation calls model_best.pth holds the
\* checkpoint of the epoch with the highest mIoU so far; an epoch whose mIoU
\* does not exceed an earlier one's never replaces it.
C1_BestFileIsBestEpoch ==
    \A name \in ModelNames : fs[name].best = bestSeenCheckpoint[name]

\* C2: model_best.pth is always the content written by the most recent
\* save_checkpoint call with is_best=True, and does not exist if there was none.
C2_BestFileIsLastBestSaved ==
    \A name \in ModelNames : fs[name].best = lastBestWritten[name]

\* a call with is_best=False has come after the best file was written, and no
\* epoch's checkpoint file has the best file's content any more
C2_Witness ==
    /\ lastCall.op = "Saver.save_checkpoint"
    /\ lastCall.raised = ""
    /\ ~lastCall.is_best
    /\ \E name \in ModelNames :
          /\ lastCall.name = name
          /\ fs[name].best # ""
          /\ \A e \in Epochs : fs[name].checkpoints[e] # fs[name].best
          /\ \E e \in Epochs : fs[name].checkpoints[e] # ""

\* C3: constructing a Trainer for a model name whose folder exists raises
\* before anything is written: the folder's files are as they were.
C3_ExistingRunRaisesUntouched ==
    [][(lastCall'.op = "Trainer.__init__" /\ fs[lastCall'.name].exists) =>
          /\ lastCall'.raised = "FileExistsError"
          /\ fs' = fs
          /\ trainers' = trainers]_vars

\* the constructor has raised on a folder holding an earlier run's files
C3_Witness ==
    /\ lastCall.op = "Trainer.__init__"
    /\ lastCall.raised = "FileExistsError"
    /\ fs[lastCall.name].instructions # NoInstructions
    /\ fs[lastCall.name].best # ""
    /\ \E e \in Epochs : fs[lastCall.name].checkpoints[e] # ""

====
